---- MODULE Spec2Model ----
(***************************************************************************)
(* RouteFinder (src/model.py): the route assembler of the running-route    *)
(* recommender.  One run of RouteFinder.run is modelled as a sequential    *)
(* state machine, one action per method call (and per gateway request      *)
(* inside the discovery loop).                                             *)
(*                                                                         *)
(* Units.  Coordinates are integers: a (lat, lon) pair counted in grid     *)
(* steps, which is also the precision of the polyline codec, so every      *)
(* decoded point is an integer pair.  Lengths (Route.length, geodesic      *)
(* distances, trimmed_distance) are integers counted in 0.1 km; the        *)
(* gateways report metres, as the providers do, and the code's "/1000"     *)
(* (metres to km) is the model's "\div 100" (metres to 0.1 km).            *)
(* ideal_distance is in km as in the code, so "ideal_distance/2" (km) is   *)
(* "5 * ideal_distance" (0.1 km).  Floating-point rounding is not          *)
(* modelled.                                                               *)
(***************************************************************************)
EXTENDS Integers, Sequences, FiniteSets, TLC

(***************************************************************************)
(* Bounds of the model.                                                    *)
(***************************************************************************)
\* largest number of segment records in one discovery response
MaxCatalog == 3
\* the discovery loop is followed for at most this many doublings
MaxDoublings == 2

(***************************************************************************)
(* Program constants (the RouteFinder(...) construction in src/main.py).   *)
(***************************************************************************)
InitDiagDistance == 30

(***************************************************************************)
(* Small helpers.                                                          *)
(***************************************************************************)
Min2(a, b) == IF a <= b THEN a ELSE b

Abs(x) == IF x < 0 THEN -x ELSE x

RECURSIVE GCD(_, _)
GCD(a, b) == IF b = 0 THEN a ELSE GCD(b, a % b)

\* integer square root: the largest r with r*r <= n
ISqrt(n) == CHOOSE r \in 0..n : r * r <= n /\ (r + 1) * (r + 1) > n

Reverse(s) == [i \in 1..Len(s) |-> s[Len(s) + 1 - i]]

\* s[:n] of Python, for n >= 0
Take(s, n) == SubSeq(s, 1, Min2(n, Len(s)))

(***************************************************************************)
(* geopy: distance.geodesic(a, b).km, here in 0.1 km on a grid whose step  *)
(* is 1 km: the rounded-down Euclidean distance.  It is non-negative,      *)
(* symmetric and 0 exactly for equal points.                               *)
(***************************************************************************)
PlanarSq(a, b) == (a[1] - b[1]) * (a[1] - b[1]) + (a[2] - b[2]) * (a[2] - b[2])

Geodesic(a, b) == ISqrt(100 * PlanarSq(a, b))

(***************************************************************************)
(* The polyline codec.  An encoded polyline holds the first point and then *)
(* the difference of every point to its predecessor (the characters of the *)
(* real format encode exactly these numbers); decoding sums them up again. *)
(***************************************************************************)
Encode(path) ==
    [i \in 1..Len(path) |->
        IF i = 1 THEN path[1]
        ELSE <<path[i][1] - path[i-1][1], path[i][2] - path[i-1][2]>>]

RECURSIVE Decode(_)
Decode(enc) ==
    IF enc = <<>> THEN <<>>
    ELSE IF Len(enc) = 1 THEN <<enc[1]>>
    ELSE LET front == Decode(SubSeq(enc, 1, Len(enc) - 1))
             last  == front[Len(front)]
             d     == enc[Len(enc)]
         IN  Append(front, <<last[1] + d[1], last[2] + d[2]>>)

(***************************************************************************)
(* class Route.  The defaults of the dataclass: details {} is NoDetails,   *)
(* closest_point () is NoPoint, the distances are -1.                      *)
(***************************************************************************)
NoDetails == [uid |-> 0, start_latlng |-> <<>>, points |-> <<>>, distance |-> 0]

NoPoint == <<>>

Route(polyline, length) ==
    [polyline |-> polyline, length |-> length, details |-> NoDetails,
     closest_point |-> NoPoint, straight_line_distance |-> -1,
     google_route_distance |-> -1]

\* a field that holds no Route: not yet assigned, or set to -1 by
\* init_before_next_search
Unset == Route(<<>>, -1)

(***************************************************************************)
(* What the gateways can answer.                                           *)
(*                                                                         *)
(* A segment record of the discovery response carries start_latlng, the    *)
(* encoded path (points) and the length in metres (distance).  uid is the  *)
(* identity of the record object (its position in the response); it is not *)
(* part of the record's content, and two records with the same content     *)
(* compare equal in Python.                                                *)
(***************************************************************************)
SegmentPool ==
    { [start_latlng |-> <<0, 1>>,
       points |-> Encode(<< <<0, 1>>, <<0, 2>> >>), distance |-> 3000],
      [start_latlng |-> <<1, 0>>,
       points |-> Encode(<< <<1, 0>>, <<2, 0>>, <<2, 1>> >>), distance |-> 1000],
      [start_latlng |-> <<2, 2>>,
       points |-> Encode(<< <<1, 0>>, <<0, 1>>, <<1, 1>>, <<1, 0>> >>),
       distance |-> 500] }

Record(content, n) ==
    [uid |-> n, start_latlng |-> content.start_latlng,
     points |-> content.points, distance |-> content.distance]

\* the "segments" lists a discovery response can carry
Catalogs ==
    UNION { { [i \in 1..n |-> Record(c[i], i)] : c \in [1..n -> SegmentPool] }
            : n \in 0..MaxCatalog }

\* dict equality of two records: the content, not the object
SameDetails(a, b) ==
    /\ a.start_latlng = b.start_latlng
    /\ a.points = b.points
    /\ a.distance = b.distance

\* answers of the walking-distance gateway: metres, or no result
NoResult == -1

WalkingDistances == {NoResult, 200, 700}

\* answers of the walking-route gateway: no route, or a path and its metres
WalkingRoutes ==
    { [ok |-> FALSE, points |-> <<>>, value |-> 0],
      [ok |-> TRUE, points |-> Encode(<< <<0, 0>>, <<0, 1>> >>), value |-> 300],
      [ok |-> TRUE, points |-> Encode(<< <<1, 1>> >>), value |-> 0] }


(***************************************************************************)
(* get_top_k_straight_line_closest_segments_by_start_cors: sorted() is a   *)
(* stable sort; it is modelled as the insertion sort that puts an element  *)
(* behind every element whose key is not larger.                           *)
(***************************************************************************)
\* a sort that is not stable: an element goes before the elements of equal key
InsertByKey_BeforeEqual(sorted, x) ==
    LET n == Cardinality({i \in 1..Len(sorted) : sorted[i][2] < x[2]})
    IN  SubSeq(sorted, 1, n) \o <<x>> \o SubSeq(sorted, n + 1, Len(sorted))

InsertByKey(sorted, x) ==
    LET n == Cardinality({i \in 1..Len(sorted) : sorted[i][2] <= x[2]})
    IN  SubSeq(sorted, 1, n) \o <<x>> \o SubSeq(sorted, n + 1, Len(sorted))

RECURSIVE SortedByKey(_)
SortedByKey(pairs) ==
    IF pairs = <<>> THEN <<>>
    ELSE InsertByKey(SortedByKey(SubSeq(pairs, 1, Len(pairs) - 1)),
                     pairs[Len(pairs)])

\* the list comprehension of line 120: (segment, geodesic distance of its
\* declared start from the cursor)
StartDistances(segments, cor) ==
    [i \in 1..Len(segments) |->
        <<segments[i], Geodesic(cor, segments[i].start_latlng)>>]

TopK(segments, cor, kk) == Take(SortedByKey(StartDistances(segments, cor)), kk)

CandidateOf(s) ==
    [polyline |-> s.points, length |-> s.distance \div 100, details |-> s,
     closest_point |-> NoPoint, straight_line_distance |-> -1,
     google_route_distance |-> -1]

(***************************************************************************)
(* get_closest_point_on_line.  The projection of p on the line start-end   *)
(* has rational coordinates; a point is held as <<x, y, den>>, meaning     *)
(* (x/den, y/den), in lowest terms with den > 0.                           *)
(***************************************************************************)
RatPoint(x, y, den) ==
    LET g == GCD(GCD(Abs(x), Abs(y)), den)
    IN  <<x \div g, y \div g, den \div g>>

PointOf(c) == <<c[1], c[2], 1>>

\* a projection on the whole line through start and end, without the clamp
get_closest_point_on_line_NoClamp(start, end, p) ==
    LET length == PlanarSq(start, end)
        v      == <<end[1] - start[1], end[2] - start[2]>>
        num    == (p[1] - start[1]) * v[1] + (p[2] - start[2]) * v[2]
    IN  IF length = 0 THEN PointOf(start)
        ELSE RatPoint(start[1] * length + num * v[1],
                      start[2] * length + num * v[2], length)

get_closest_point_on_line(start, end, p) ==
    LET length == PlanarSq(start, end)
        v      == <<end[1] - start[1], end[2] - start[2]>>
        \* param = num / length
        num    == (p[1] - start[1]) * v[1] + (p[2] - start[2]) * v[2]
    IN  IF length = 0 THEN PointOf(start)
        ELSE IF num < 0 THEN PointOf(start)
        ELSE IF num > length THEN PointOf(end)
        ELSE RatPoint(start[1] * length + num * v[1],
                      start[2] * length + num * v[2], length)

(***************************************************************************)
(* get_closest_point_on_path.                                              *)
(***************************************************************************)
\* path[::ratio]
Downsample(path, ratio) ==
    [i \in 1..((Len(path) + ratio - 1) \div ratio) |-> path[(i - 1) * ratio + 1]]

\* the list close_points of line 164: one (point, score) per consecutive pair
ClosePoints(path, p, ratio) ==
    LET coords == Downsample(path, ratio)
    IN  [i \in 1..(IF Len(coords) = 0 THEN 0 ELSE Len(coords) - 1) |->
            [point |-> get_closest_point_on_line(coords[i], coords[i+1], p),
             score |-> PlanarSq(p, coords[i+1])]]

\* a scan that keeps the last smallest element
RECURSIVE MinScan_LastOnTies(_, _, _)
MinScan_LastOnTies(s, i, best) ==
    IF i > Len(s) THEN best
    ELSE MinScan_LastOnTies(s, i + 1,
                            IF s[i].score <= best.score THEN s[i] ELSE best)

\* min(close_points, key=...): a scan that keeps the first smallest element
RECURSIVE MinScan(_, _, _)
MinScan(s, i, best) ==
    IF i > Len(s) THEN best
    ELSE MinScan(s, i + 1, IF s[i].score < best.score THEN s[i] ELSE best)

MinByScore(s) == MinScan(s, 2, s[1])

\* min() of an empty list raises ValueError
PathHasPair(path, ratio) == Len(ClosePoints(path, <<0, 0>>, ratio)) > 0

get_closest_point_on_path(path, p, ratio) == MinByScore(ClosePoints(path, p, ratio))

(***************************************************************************)
(* combine_route and trim_route.                                           *)
(***************************************************************************)
\* a combine_route that forgets the length of its first route
combine_route_DropsLength(route1, route2) ==
    Route(Encode(Decode(route1.polyline) \o Decode(route2.polyline)),
          route2.length)

\* a concatenation that puts the second path first
combine_route_Swapped(route1, route2) ==
    Route(Encode(Decode(route2.polyline) \o Decode(route1.polyline)),
          route1.length + route2.length)

combine_route(route1, route2) ==
    Route(Encode(Decode(route1.polyline) \o Decode(route2.polyline)),
          route1.length + route2.length)

\* a trim_route that stops before the edge that would reach d
RECURSIVE TrimWalk_StopsShort(_, _, _, _)
TrimWalk_StopsShort(points, d, i, total_distance) ==
    IF i < Len(points) - 1
       /\ total_distance + Geodesic(points[i + 1], points[i + 2]) < d
    THEN TrimWalk_StopsShort(points, d, i + 1,
                  total_distance + Geodesic(points[i + 1], points[i + 2]))
    ELSE [i |-> i, total_distance |-> total_distance]

\* the while loop of trim_route: i edges walked, total_distance summed
RECURSIVE TrimWalk(_, _, _, _)
TrimWalk(points, d, i, total_distance) ==
    IF total_distance < d /\ i < Len(points) - 1
    THEN TrimWalk(points, d, i + 1,
                  total_distance + Geodesic(points[i + 1], points[i + 2]))
    ELSE [i |-> i, total_distance |-> total_distance]

trim_route(p, d) ==
    LET points == Decode(p)
        w      == TrimWalk(points, d, 0, 0)
    IN  [points |-> Take(points, w.i), total_distance |-> w.total_distance]


(***************************************************************************)
(* The state of one RouteFinder and of its run.                            *)
(***************************************************************************)
VARIABLES
    pc,                       \* the method run() executes next
    init_cor, cur_cor, ideal_distance, k, downsample_ratio,
    strava_access_token,
    strava_nearby_segments,   \* the "segments" list of the stored response
    diag_distance,            \* local of get_nearby_strava_segments; 0 once
                              \* the method has returned
    segment_candidates, closest_strava_segment, route_to_closest_segment,
    result_route,
    error,                    \* the exception that ended the run, or "none"
    failed_call,              \* the gateway call that failed, or "none"
    discovered,               \* number of records in the stored response
    selected,                 \* uid of the winner of every ranking, in order
    bounds_center,            \* centre of the box of the last explore request
    route_request,            \* origin and destination of the last
                              \* directions request
    trimmed                   \* the call of trim_route in trim_and_complete:
                              \* its arguments p, d and what it returned

vars == <<pc, init_cor, cur_cor, ideal_distance, k, downsample_ratio,
          strava_access_token, strava_nearby_segments, diag_distance,
          segment_candidates, closest_strava_segment, route_to_closest_segment,
          result_route, error, failed_call, discovered, selected,
          bounds_center, route_request, trimmed>>

config == <<init_cor, ideal_distance, k, downsample_ratio>>

\* what only get_nearby_strava_segments writes
found ==
    <<strava_nearby_segments, diag_distance, discovered, bounds_center>>

\* the constructor arguments the model tries
Origins == {<<0, 0>>}

IdealDistances == {1, 5, 8}

Ks == {2, 3}

DownsampleRatios == {1, 2}

NoRequest == [origin |-> NoPoint, destination |-> NoPoint]

NoTrim == [p |-> <<>>, d |-> 0, points |-> <<>>, total_distance |-> -1]

\* RouteFinder(...) and __post_init__
Init ==
    /\ pc = "update_strava_access_token"
    /\ init_cor \in Origins
    /\ cur_cor = init_cor
    /\ ideal_distance \in IdealDistances
    /\ k \in Ks
    /\ downsample_ratio \in DownsampleRatios
    /\ strava_access_token = ""
    /\ strava_nearby_segments = <<>>
    /\ diag_distance = InitDiagDistance
    /\ segment_candidates = <<>>
    /\ closest_strava_segment = Unset
    /\ route_to_closest_segment = Unset
    /\ result_route = Unset
    /\ error = "none"
    /\ failed_call = "none"
    /\ discovered = 0
    /\ selected = <<>>
    /\ bounds_center = NoPoint
    /\ route_request = NoRequest
    /\ trimmed = NoTrim

NoRaise == UNCHANGED <<error, failed_call>>

\* a run() that notes the exception and goes on, which repeats the call
Raise_AndRetry(exception, call) ==
    /\ pc' = pc
    /\ error' = exception
    /\ failed_call' = call

\* an exception leaves run(): nothing catches it
Raise(exception, call) ==
    /\ pc' = "failed"
    /\ error' = exception
    /\ failed_call' = call

(***************************************************************************)
(* update_strava_access_token: without a token in the answer,              *)
(* response.json()['access_token'] raises KeyError.                        *)
(***************************************************************************)
update_strava_access_token ==
    /\ pc = "update_strava_access_token"
    /\ \E granted \in BOOLEAN :
          IF granted
          THEN /\ strava_access_token' = "token"
               /\ pc' = "get_nearby_strava_segments"
               /\ NoRaise
          ELSE /\ Raise("KeyError", "token")
               /\ UNCHANGED strava_access_token
    /\ UNCHANGED <<config, route_request, cur_cor, found,
                   segment_candidates, closest_strava_segment,
                   route_to_closest_segment, result_route, selected, trimmed>>

(***************************************************************************)
(* get_nearby_strava_segments, one request of its loop.  The box is        *)
(* centred on init_cor.  The provider answers with another status than     *)
(* 200, with 200 and no body (None), or with 200 and a body.               *)
(***************************************************************************)
MaxDiagDistance == InitDiagDistance * (2 ^ MaxDoublings)

DiscoveryResponses ==
    {[status |-> 500, json |-> "error", segments |-> <<>>],
     [status |-> 200, json |-> "None", segments |-> <<>>]}
    \cup {[status |-> 200, json |-> "body", segments |-> c] : c \in Catalogs}

\* cor = self.init_cor, the point get_bounds_from_cor is called with
ExploreCenter == init_cor

get_nearby_strava_segments ==
    /\ pc = "get_nearby_strava_segments"
    /\ bounds_center' = ExploreCenter
    /\ \E response \in DiscoveryResponses :
          IF response.status = 200
          THEN IF response.json = "None"
               THEN /\ diag_distance < MaxDiagDistance
                    /\ diag_distance' = diag_distance * 2
                    /\ UNCHANGED <<pc, strava_nearby_segments, discovered>>
                    /\ NoRaise
               ELSE /\ strava_nearby_segments' = response.segments
                    /\ discovered' = Len(response.segments)
                    /\ pc' = "get_top_k"
                    /\ diag_distance' = 0
                    /\ NoRaise
          ELSE /\ Raise("Exception", "discovery")
               /\ UNCHANGED <<strava_nearby_segments, diag_distance,
                              discovered>>
    /\ UNCHANGED <<config, route_request, cur_cor, strava_access_token,
                   segment_candidates,
                   closest_strava_segment, route_to_closest_segment,
                   result_route, selected, trimmed>>

(***************************************************************************)
(* get_route_to_closest_segment, in its four steps.                        *)
(***************************************************************************)
get_top_k_straight_line_closest_segments_by_start_cors ==
    /\ pc = "get_top_k"
    /\ segment_candidates' =
          [i \in 1..Len(TopK(strava_nearby_segments, cur_cor, k)) |->
              CandidateOf(TopK(strava_nearby_segments, cur_cor, k)[i][1])]
    /\ pc' = "get_closest_point"
    /\ UNCHANGED <<config, route_request, cur_cor, strava_access_token,
                   found,
                   closest_strava_segment,
                   route_to_closest_segment, result_route, error, failed_call,
                   selected, trimmed>>

\* the loop of get_closest_point_on_segment_candidates: a candidate whose
\* downsampled path has no pair of points ends it with ValueError
WithClosestPoint(segment, p, ratio) ==
    LET closest == get_closest_point_on_path(Decode(segment.polyline), p, ratio)
    IN  [segment EXCEPT !.closest_point = closest.point,
                        !.straight_line_distance = closest.score]

get_closest_point_on_segment_candidates ==
    /\ pc = "get_closest_point"
    /\ LET bad == {i \in 1..Len(segment_candidates) :
                      ~PathHasPair(Decode(segment_candidates[i].polyline),
                                   downsample_ratio)}
           stop == IF bad = {} THEN Len(segment_candidates) + 1
                   ELSE CHOOSE i \in bad : \A j \in bad : i <= j
       IN  /\ segment_candidates' =
                 [i \in 1..Len(segment_candidates) |->
                     IF i < stop
                     THEN WithClosestPoint(segment_candidates[i], cur_cor,
                                           downsample_ratio)
                     ELSE segment_candidates[i]]
           /\ IF bad = {}
              THEN pc' = "get_google_route_distance" /\ NoRaise
              ELSE Raise("ValueError", "none")
    /\ UNCHANGED <<config, route_request, cur_cor, strava_access_token,
                   found,
                   closest_strava_segment,
                   route_to_closest_segment, result_route, selected, trimmed>>

\* the loop of get_google_route_distance_on_segment_candidates: one request
\* per candidate, in order; an answer without a distance ends it with
\* KeyError; then the winner is the first of the candidates sorted by the
\* distance, and sorted(...)[0] of no candidate raises IndexError
WithGoogleDistance(segment, metres) ==
    [segment EXCEPT !.google_route_distance = metres \div 100]

ByGoogleDistance(candidates) ==
    SortedByKey([i \in 1..Len(candidates) |->
                    <<candidates[i], candidates[i].google_route_distance>>])

get_google_route_distance_on_segment_candidates ==
    /\ pc = "get_google_route_distance"
    /\ \E answers \in [1..Len(segment_candidates) -> WalkingDistances] :
          LET n     == Len(segment_candidates)
              bad   == {i \in 1..n : answers[i] = NoResult}
              stop  == IF bad = {} THEN n + 1
                       ELSE CHOOSE i \in bad : \A j \in bad : i <= j
              after == [i \in 1..n |->
                          IF i < stop
                          THEN WithGoogleDistance(segment_candidates[i],
                                                  answers[i])
                          ELSE segment_candidates[i]]
          IN  /\ segment_candidates' = after
              /\ IF bad # {}
                 THEN /\ Raise("KeyError", "distance")
                      /\ UNCHANGED <<closest_strava_segment, selected>>
                 ELSE IF n = 0
                 THEN /\ Raise("IndexError", "none")
                      /\ UNCHANGED <<closest_strava_segment, selected>>
                 ELSE /\ closest_strava_segment' = ByGoogleDistance(after)[1][1]
                      /\ selected' =
                            Append(selected,
                                   ByGoogleDistance(after)[1][1].details.uid)
                      /\ pc' = "get_route_to_closest_segment"
                      /\ NoRaise
    /\ UNCHANGED <<config, route_request, cur_cor, strava_access_token,
                   found,
                   route_to_closest_segment, result_route,
                   trimmed>>

\* the directions request of get_route_to_closest_segment (lines 237-248):
\* an answer without a route raises IndexError at response['routes'][0]
RouteRequest ==
    [origin |-> cur_cor, destination |-> closest_strava_segment.closest_point]

get_route_to_closest_segment ==
    /\ pc = "get_route_to_closest_segment"
    /\ route_request' = RouteRequest
    /\ \E response \in WalkingRoutes :
          IF response.ok
          THEN /\ route_to_closest_segment' =
                     [Route(response.points, response.value \div 100)
                         EXCEPT !.straight_line_distance = 0,
                                !.google_route_distance = 0]
               /\ pc' = "combine_route"
               /\ NoRaise
          ELSE /\ Raise("IndexError", "route")
               /\ UNCHANGED route_to_closest_segment
    /\ UNCHANGED <<config, cur_cor, strava_access_token, found,
                   segment_candidates, closest_strava_segment,
                   result_route, selected, trimmed>>

(***************************************************************************)
(* run, lines 332-333 and 336-337: the result is extended by the access    *)
(* route and the segment, and the loop condition is tested.                *)
(***************************************************************************)
ExtendedRoute ==
    LET next_route == combine_route(route_to_closest_segment,
                                    closest_strava_segment)
    IN  IF result_route = Unset THEN next_route
        ELSE combine_route(result_route, next_route)

\* the test of the while loop of run
LoopContinues_AtTarget(route) == route.length <= 5 * ideal_distance

LoopContinues(route) == route.length < 5 * ideal_distance

extend_result_route ==
    /\ pc = "combine_route"
    /\ result_route' = ExtendedRoute
    /\ pc' = IF LoopContinues(ExtendedRoute)
             THEN "init_before_next_search"
             ELSE "trim_and_complete"
    /\ UNCHANGED <<config, route_request, cur_cor, strava_access_token,
                   found,
                   segment_candidates, closest_strava_segment,
                   route_to_closest_segment, error, failed_call, selected,
                   trimmed>>

(***************************************************************************)
(* init_before_next_search.  list.remove(x) removes the first element that *)
(* compares equal to x.                                                    *)
(***************************************************************************)
RemoveFirst(list, x) ==
    LET hits == {i \in 1..Len(list) : SameDetails(list[i], x)}
        at   == CHOOSE i \in hits : \A j \in hits : i <= j
    IN  SubSeq(list, 1, at - 1) \o SubSeq(list, at + 1, Len(list))

\* a cursor that is put on the first coordinate of the result
get_result_route_last_cor_First == Decode(result_route.polyline)[1]

get_result_route_last_cor ==
    Decode(result_route.polyline)[Len(Decode(result_route.polyline))]

\* a loop body that explores again before it ranks
NextSearch_ExploresAgain == "get_nearby_strava_segments"

\* the statement of the loop body that follows init_before_next_search
NextSearch == "get_top_k"

init_before_next_search ==
    /\ pc = "init_before_next_search"
    /\ strava_nearby_segments' =
          RemoveFirst(strava_nearby_segments, closest_strava_segment.details)
    /\ cur_cor' = get_result_route_last_cor
    /\ closest_strava_segment' = Unset
    /\ route_to_closest_segment' = Unset
    /\ segment_candidates' = <<>>
    /\ pc' = NextSearch
    /\ UNCHANGED <<config, route_request, strava_access_token, diag_distance,
                   discovered, bounds_center, result_route, error,
                   failed_call, selected, trimmed>>

(***************************************************************************)
(* trim_and_complete.                                                      *)
(***************************************************************************)
\* a mirror that repeats the path instead of walking it back
Mirror_NoReverse(points) == points \o points

Mirror(points) == points \o Reverse(points)

trim_and_complete ==
    /\ pc = "trim_and_complete"
    /\ LET t == trim_route(result_route.polyline, 5 * ideal_distance)
       IN  /\ trimmed' = [p |-> result_route.polyline, d |-> 5 * ideal_distance,
                          points |-> t.points,
                          total_distance |-> t.total_distance]
           /\ result_route' = Route(Encode(Mirror(t.points)),
                                    t.total_distance * 2)
    /\ pc' = "complete"
    /\ UNCHANGED <<config, route_request, cur_cor, strava_access_token,
                   found,
                   segment_candidates, closest_strava_segment,
                   route_to_closest_segment, error, failed_call, selected>>

Next ==
    \/ update_strava_access_token
    \/ get_nearby_strava_segments
    \/ get_top_k_straight_line_closest_segments_by_start_cors
    \/ get_closest_point_on_segment_candidates
    \/ get_google_route_distance_on_segment_candidates
    \/ get_route_to_closest_segment
    \/ extend_result_route
    \/ init_before_next_search
    \/ trim_and_complete

Spec == Init /\ [][Next]_vars

(***************************************************************************)
(* trim_and_complete on its own: the route to trim is any path of at most  *)
(* MaxPath points of TrimPoints, and ideal_distance any of IdealDistances. *)
(***************************************************************************)
MaxPath == 4

TrimPoints == {<<0, 0>>, <<0, 1>>, <<1, 1>>, <<0, 3>>}

TrimPaths == UNION {[1..n -> TrimPoints] : n \in 0..MaxPath}

InitTrim ==
    /\ pc = "trim_and_complete"
    /\ init_cor = <<0, 0>>
    /\ cur_cor = init_cor
    /\ ideal_distance \in IdealDistances
    /\ k = 3
    /\ downsample_ratio = 1
    /\ strava_access_token = "token"
    /\ strava_nearby_segments = <<>>
    /\ diag_distance = 0
    /\ segment_candidates = <<>>
    /\ closest_strava_segment = Unset
    /\ route_to_closest_segment = Unset
    /\ result_route \in {Route(Encode(path), 5 * ideal_distance) :
                            path \in TrimPaths}
    /\ error = "none"
    /\ failed_call = "none"
    /\ discovered = 0
    /\ selected = <<>>
    /\ bounds_center = NoPoint
    /\ route_request = NoRequest
    /\ trimmed = NoTrim

NextTrim == trim_and_complete

SpecTrim == InitTrim /\ [][NextTrim]_vars

(***************************************************************************)
(* get_closest_point_on_line on its own: the candidate is one line from a  *)
(* to b, the cursor is p, and get_closest_point_on_segment_candidates      *)
(* projects p on the line.                                                 *)
(***************************************************************************)
MaxCoord == 2

ProjectPoints == (0..MaxCoord) \X (0..MaxCoord)

LineSegment(a, b) ==
    Record([start_latlng |-> a, points |-> Encode(<<a, b>>),
            distance |-> 1000], 1)

InitProject ==
    /\ pc = "get_closest_point"
    /\ init_cor = <<0, 0>>
    /\ cur_cor \in ProjectPoints
    /\ ideal_distance = 1
    /\ k = 3
    /\ downsample_ratio = 1
    /\ strava_access_token = "token"
    /\ \E a, b \in ProjectPoints :
          /\ strava_nearby_segments = <<LineSegment(a, b)>>
          /\ segment_candidates = <<CandidateOf(LineSegment(a, b))>>
    /\ diag_distance = 0
    /\ closest_strava_segment = Unset
    /\ route_to_closest_segment = Unset
    /\ result_route = Unset
    /\ error = "none"
    /\ failed_call = "none"
    /\ discovered = 1
    /\ selected = <<>>
    /\ bounds_center = init_cor
    /\ route_request = NoRequest
    /\ trimmed = NoTrim

NextProject == get_closest_point_on_segment_candidates

SpecProject == InitProject /\ [][NextProject]_vars

(***************************************************************************)
(* Properties.                                                             *)
(***************************************************************************)
\* the summed distance of consecutive points of a path
RECURSIVE PathDistance(_)
PathDistance(points) ==
    IF Len(points) < 2 THEN 0
    ELSE Geodesic(points[1], points[2]) + PathDistance(Tail(points))

\* C1: with gateways that always answer and a discovery that found at least
\* one segment, run does not end in a failure (it reaches COMPLETE); stated
\* for the default downsample_ratio of 1.
C1_ReachesComplete ==
    (discovered >= 1 /\ failed_call = "none" /\ downsample_ratio = 1)
        => pc # "failed"

\* C2: the trimmed_distance that trim_route returns is at least d, unless
\* the summed distance of the whole path is below d, and then it is that sum.
C2_TrimBound ==
    pc = "complete" =>
        LET whole == PathDistance(Decode(trimmed.p))
        IN  IF whole < trimmed.d
            THEN trimmed.total_distance = whole
            ELSE trimmed.total_distance >= trimmed.d

\* a trim that cut points off and went past d
C2_Witness ==
    /\ pc = "complete"
    /\ Len(trimmed.points) + 1 < Len(Decode(trimmed.p))
    /\ trimmed.total_distance > trimmed.d

\* the other case: the whole path is shorter than d
C2_WholePathShort ==
    /\ pc = "complete"
    /\ Len(Decode(trimmed.p)) >= 3
    /\ PathDistance(Decode(trimmed.p)) < trimmed.d

\* C3: the finalized path has even length, its second half is the reverse
\* of its first half, its first half is the path trim_route returned, and the
\* finalized length is twice the trimmed_distance.
C3_FinalSymmetry ==
    pc = "complete" =>
        LET path == Decode(result_route.polyline)
            half == Len(path) \div 2
        IN  /\ Len(path) % 2 = 0
            /\ SubSeq(path, half + 1, Len(path)) = Reverse(SubSeq(path, 1, half))
            /\ SubSeq(path, 1, half) = trimmed.points
            /\ result_route.length = 2 * trimmed.total_distance

\* a finalized route of at least three different points out and back
C3_Witness ==
    /\ pc = "complete"
    /\ Len(trimmed.points) >= 3
    /\ trimmed.points[1] # trimmed.points[3]
    /\ trimmed.points[1] # trimmed.points[2]
    /\ Len(Decode(result_route.polyline)) = 2 * Len(trimmed.points)

\* C4: no catalog record is the winner of two rankings of one run.
C4_SingleUse ==
    \A i, j \in 1..Len(selected) : i # j => selected[i] # selected[j]

\* C5: a ranking in which the walking distance of some candidate was
\* obtained does not fail because the query of another candidate failed.
C5_FailureIsolation ==
    (\E i \in 1..Len(segment_candidates) :
        segment_candidates[i].google_route_distance >= 0)
        => failed_call # "distance"

\* C6: discovery does not double the box MaxDoublings times without ending
\* in a DiscoveryExhausted error.
C6_BoundedRetry ==
    diag_distance >= MaxDiagDistance => error = "DiscoveryExhausted"

\* C7: a gateway call that fails ends the run in that very step, a run that
\* has failed takes no further step (no retry, no further gateway call), and
\* no run with a failed call gets to trim_and_complete or to COMPLETE.
C7_FailureEndsRun ==
    [][ /\ pc # "failed"
        /\ failed_call' # "none" => pc' = "failed"
        /\ pc' \in {"trim_and_complete", "complete"} => failed_call' = "none"
      ]_vars

\* a run that failed at the walking-route call of a later iteration, with the
\* route of the earlier iterations left untrimmed in the object
C7_Witness ==
    /\ pc = "failed"
    /\ failed_call = "route"
    /\ result_route # Unset
    /\ trimmed = NoTrim

\* C8: before the final trim no step decreases result_route.length (the
\* lengths the gateways report are non-negative).
C8_LengthMonotone ==
    [][ (result_route # Unset /\ pc # "trim_and_complete")
            => result_route'.length >= result_route.length ]_vars

\* the state after the extension of the second iteration
C8_Witness ==
    /\ Len(selected) >= 2
    /\ pc \in {"init_before_next_search", "trim_and_complete"}
    /\ result_route.length > 0

\* C9: right after the ranking by start coordinate the candidate list has
\* min(k, |catalog|) records of the catalog, ordered by the distance of their
\* declared start from the cursor, equal distances in catalog order, and
\* every record left out comes after every candidate in that order.
StartDistance(record) == Geodesic(cur_cor, record.start_latlng)

CatalogIndex(uid) ==
    CHOOSE i \in 1..Len(strava_nearby_segments) :
        strava_nearby_segments[i].uid = uid

\* record a comes before record b: closer start, or as close and earlier
RanksBefore(a, b) ==
    \/ StartDistance(a) < StartDistance(b)
    \/ /\ StartDistance(a) = StartDistance(b)
       /\ CatalogIndex(a.uid) < CatalogIndex(b.uid)

C9_RankingOrder ==
    pc = "get_closest_point" =>
        LET c    == segment_candidates
            cat  == strava_nearby_segments
            kept == {c[i].details : i \in 1..Len(c)}
        IN  /\ Len(c) = Min2(k, Len(cat))
            /\ \A i \in 1..Len(c) : \E j \in 1..Len(cat) : cat[j] = c[i].details
            /\ \A i, j \in 1..Len(c) :
                  i < j => RanksBefore(c[i].details, c[j].details)
            /\ \A j \in 1..Len(cat) :
                  cat[j] \notin kept => \A r \in kept : RanksBefore(r, cat[j])

\* a ranking that left out the first record of the catalog and kept two
\* records whose starts are equally far from the cursor
C9_Witness ==
    /\ pc = "get_closest_point"
    /\ Len(segment_candidates) = 2
    /\ Len(strava_nearby_segments) > 2
    /\ StartDistance(segment_candidates[1].details)
          = StartDistance(segment_candidates[2].details)
    /\ \A i \in 1..2 : segment_candidates[i].details.uid # 1

\* C10: for a candidate path of at least two points,
\* get_closest_point_on_path returns the projection and the score of the
\* first pair of the (downsampled) path with the smallest score.
PairCount(path) ==
    IF Len(Downsample(path, downsample_ratio)) = 0 THEN 0
    ELSE Len(Downsample(path, downsample_ratio)) - 1

PairScore(path, i) == PlanarSq(cur_cor, Downsample(path, downsample_ratio)[i + 1])

PairPoint(path, i) ==
    get_closest_point_on_line(Downsample(path, downsample_ratio)[i],
                              Downsample(path, downsample_ratio)[i + 1],
                              cur_cor)

IsNearest(segment) ==
    LET path == Decode(segment.polyline)
    IN  \E i \in 1..PairCount(path) :
            /\ segment.closest_point = PairPoint(path, i)
            /\ segment.straight_line_distance = PairScore(path, i)
            /\ \A j \in 1..PairCount(path) : PairScore(path, i) <= PairScore(path, j)
            /\ \A j \in 1..(i - 1) : PairScore(path, j) > PairScore(path, i)

\* get_closest_point_on_path has been called for candidate i
CalledFor(i) ==
    \/ pc = "get_google_route_distance"
    \/ /\ error = "ValueError"
       /\ \A j \in 1..(i - 1) : segment_candidates[j].closest_point # NoPoint

C10_NearestPoint ==
    \A i \in 1..Len(segment_candidates) :
        (CalledFor(i) /\ Len(Decode(segment_candidates[i].polyline)) >= 2)
            => IsNearest(segment_candidates[i])

\* what holds of get_closest_point_on_path whenever it returns
NearestPointWhenReturned ==
    pc = "get_google_route_distance" =>
        \A i \in 1..Len(segment_candidates) : IsNearest(segment_candidates[i])

(***************************************************************************)
(* The projection of a point on a line.                                    *)
(***************************************************************************)
\* the line and the point of the one call of get_closest_point_on_line
LineA == Decode(segment_candidates[1].polyline)[1]

LineB == Decode(segment_candidates[1].polyline)[2]

Projected == segment_candidates[1].closest_point

\* the dot product of p - a and b - a, which is t times |b - a|^2
Dot(a, b, p) == (p[1] - a[1]) * (b[1] - a[1]) + (p[2] - a[2]) * (b[2] - a[2])

\* q = a + t (b - a), with q = <<x, y, den>> standing for (x/den, y/den)
IsInterpolated(q, a, b, p) ==
    /\ q[3] > 0
    /\ q[1] * PlanarSq(a, b) =
          q[3] * (a[1] * PlanarSq(a, b) + Dot(a, b, p) * (b[1] - a[1]))
    /\ q[2] * PlanarSq(a, b) =
          q[3] * (a[2] * PlanarSq(a, b) + Dot(a, b, p) * (b[2] - a[2]))

\* q is collinear with a and b and lies between them
OnSegment(q, a, b) ==
    LET dx == q[1] - a[1] * q[3]
        dy == q[2] - a[2] * q[3]
        along == dx * (b[1] - a[1]) + dy * (b[2] - a[2])
    IN  /\ dx * (b[2] - a[2]) = dy * (b[1] - a[1])
        /\ 0 <= along
        /\ along <= q[3] * PlanarSq(a, b)

\* |q - p| <= |c - p|
NoFartherThan(q, c, p) ==
    (q[1] - p[1] * q[3]) * (q[1] - p[1] * q[3])
       + (q[2] - p[2] * q[3]) * (q[2] - p[2] * q[3])
    <= q[3] * q[3] * PlanarSq(c, p)

\* C11: get_closest_point_on_line(a, b, p) is a when a = b; otherwise, with
\* t = dot(p - a, b - a) / |b - a|^2, it is a when t < 0, b when t > 1 and
\* a + t (b - a) when 0 <= t <= 1, and in that last case the point lies on
\* the segment from a to b and is at least as close to p as a and as b.
C11_Projection ==
    pc = "get_google_route_distance" =>
        LET a == LineA
            b == LineB
            p == cur_cor
            q == Projected
        IN  IF a = b THEN q = PointOf(a)
            ELSE IF Dot(a, b, p) < 0 THEN q = PointOf(a)
            ELSE IF Dot(a, b, p) > PlanarSq(a, b) THEN q = PointOf(b)
            ELSE /\ IsInterpolated(q, a, b, p)
                 /\ OnSegment(q, a, b)
                 /\ NoFartherThan(q, PointOf(a), p)
                 /\ NoFartherThan(q, PointOf(b), p)

\* a projection strictly inside the line, off the grid
C11_Witness ==
    /\ pc = "get_google_route_distance"
    /\ LineA # LineB
    /\ Dot(LineA, LineB, cur_cor) > 0
    /\ Dot(LineA, LineB, cur_cor) < PlanarSq(LineA, LineB)
    /\ Projected[3] > 1

(***************************************************************************)
(* The loop of run.                                                        *)
(***************************************************************************)
\* the steps of one ranking, from the top-k to the directions request
RankingSteps ==
    {"get_top_k", "get_closest_point", "get_google_route_distance",
     "get_route_to_closest_segment"}

C13_TerminationCheck ==
    [][ /\ pc = "combine_route" =>
              /\ result_route'.length < 5 * ideal_distance
                    => pc' = "init_before_next_search"
              /\ result_route'.length >= 5 * ideal_distance
                    => pc' = "trim_and_complete"
        /\ pc' = "init_before_next_search" => pc = "combine_route"
        /\ (pc' = "trim_and_complete" /\ pc # "trim_and_complete") =>
              /\ pc = "combine_route"
              /\ selected # <<>>
              /\ result_route'.length >= 5 * ideal_distance
        /\ pc = "trim_and_complete" => pc' = "complete"
        /\ pc' = "complete" => pc = "trim_and_complete"
        /\ pc # "complete"
      ]_vars

\* a run that went back to the search once, then reached the target, was
\* trimmed and completed
C13_Witness ==
    /\ pc = "complete"
    /\ Len(selected) >= 2
    /\ trimmed.d = 5 * ideal_distance

\* C14: trim_route returns the points its walk consumed, the end of the last
\* edge walked included, so that the distance it returns is the sum of the
\* consecutive distances along the path it returns; and when the path ends
\* before the distance d is reached, it returns the whole path.
C14_TrimmedPathMatchesWalk ==
    pc = "complete" =>
        /\ PathDistance(trimmed.points) = trimmed.total_distance
        /\ PathDistance(Decode(trimmed.p)) < trimmed.d
              => trimmed.points = Decode(trimmed.p)

\* the path and the length of the result before the first extension
PathSoFar == IF result_route = Unset THEN <<>> ELSE Decode(result_route.polyline)

LengthSoFar == IF result_route = Unset THEN 0 ELSE result_route.length

\* C15: before the trimming the path of the result is the concatenation
\* access_1, segment_1, ..., access_n, segment_n and its length is the sum of
\* their lengths: the result starts with no path, every extension appends
\* the path of the access route and then the whole path of the selected
\* segment and adds their two lengths, and no other step before the trimming
\* touches the result.
C15_Concatenation ==
    [][ /\ pc = "combine_route" =>
              /\ Decode(result_route'.polyline) =
                    PathSoFar \o Decode(route_to_closest_segment.polyline)
                              \o Decode(closest_strava_segment.details.points)
              /\ result_route'.length =
                    LengthSoFar + route_to_closest_segment.length
                       + closest_strava_segment.details.distance \div 100
        /\ (pc # "combine_route" /\ pc # "trim_and_complete")
              => result_route' = result_route
      ]_vars

\* a second extension, of a result and an access route that both have points
C15_Witness ==
    /\ pc = "init_before_next_search"
    /\ Len(selected) = 2
    /\ Len(Decode(route_to_closest_segment.polyline)) = 2
    /\ Len(Decode(result_route.polyline)) >=
          2 + Len(Decode(closest_strava_segment.polyline)) + 2

(***************************************************************************)
(* The winner of a ranking.                                                *)
(***************************************************************************)
\* the ranking ends with a winner that is one of the candidates it was
\* given, and no candidate has a shorter walking distance
WinnerIsNearestCandidate ==
    (pc = "get_google_route_distance"
        /\ pc' = "get_route_to_closest_segment") =>
       /\ \E i \in 1..Len(segment_candidates) :
             /\ segment_candidates'[i] = closest_strava_segment'
             /\ segment_candidates[i].details = closest_strava_segment'.details
       /\ \A i \in 1..Len(segment_candidates') :
             closest_strava_segment'.google_route_distance
                <= segment_candidates'[i].google_route_distance

\* the directions request goes from the cursor to the winner's closest point
AccessRouteToWinner ==
    pc = "get_route_to_closest_segment" =>
       /\ route_request'.origin = cur_cor
       /\ route_request'.destination = closest_strava_segment.closest_point

\* removing the winner leaves every other candidate in the stored response
OtherCandidatesStay ==
    pc = "init_before_next_search" =>
       \A i \in 1..Len(segment_candidates) :
          segment_candidates[i].details.uid
                # closest_strava_segment.details.uid
             => \E j \in 1..Len(strava_nearby_segments') :
                   strava_nearby_segments'[j].uid
                      = segment_candidates[i].details.uid

\* C16: in every iteration the selected segment is one of the top-k
\* candidates and has the minimum walking distance among them, the access
\* route is asked from the cursor to the winner's closest point, and the
\* other candidates are not removed from the stored response.
C16_WinnerSelection ==
    [][WinnerIsNearestCandidate /\ AccessRouteToWinner
          /\ OtherCandidatesStay]_vars

\* the part of C16 that the removal by equality does not touch
WinnerAndAccessRoute ==
    [][WinnerIsNearestCandidate /\ AccessRouteToWinner]_vars

(***************************************************************************)
(* The cursor.                                                             *)
(***************************************************************************)
\* the origin before the first extension, the end of the result after it
ExpectedCursor ==
    IF result_route = Unset THEN init_cor
    ELSE Decode(result_route.polyline)[Len(Decode(result_route.polyline))]

\* C17: the origin is never modified; in every step of a ranking the cursor
\* is the origin before the first extension and the last coordinate of the
\* result afterwards; the candidates of a ranking are the top-k from that
\* cursor and the directions request starts at it.
C17_CursorAndOrigin ==
    /\ [](pc \in RankingSteps => cur_cor = ExpectedCursor)
    /\ [][
        /\ init_cor' = init_cor
        /\ pc = "get_top_k" =>
              /\ Len(segment_candidates')
                    = Len(TopK(strava_nearby_segments, ExpectedCursor, k))
              /\ \A i \in 1..Len(segment_candidates') :
                    segment_candidates'[i].details =
                       TopK(strava_nearby_segments, ExpectedCursor, k)[i][1]
        /\ pc = "get_route_to_closest_segment"
              => route_request'.origin = ExpectedCursor
      ]_vars

\* the directions request of a second ranking, from a cursor off the origin
C17_Witness ==
    /\ pc = "combine_route"
    /\ Len(selected) = 2
    /\ cur_cor # init_cor
    /\ cur_cor = ExpectedCursor
    /\ route_request.origin = cur_cor

(***************************************************************************)
(* The loop of run and the stored response.                                *)
(***************************************************************************)
\* the records stored by the exploration, less one per search started again
CatalogOnlyShrinks ==
    pc \notin {"update_strava_access_token", "get_nearby_strava_segments"}
       => Len(strava_nearby_segments) + Len(selected)
             \in {discovered, discovered + 1}

\* a run that ended without a gateway failing ended complete, or failed with
\* nothing left in the stored response and a result shorter than the target
EndsCompleteOrExhausted ==
    (pc = "failed" /\ failed_call = "none") =>
       /\ strava_nearby_segments = <<>>
       /\ LengthSoFar < 5 * ideal_distance

\* C18: every search started again removes one record of the stored
\* response and nothing adds one, so a run makes at most as many extensions
\* as the exploration stored records; with gateways that answer, it ends in
\* complete or, with the stored response used up and the result still
\* shorter than the target, in a failure.
C18_BoundedByCatalog ==
    /\ CatalogOnlyShrinks
    /\ Len(selected) <= discovered
    /\ EndsCompleteOrExhausted

\* the same without downsampling
BoundedByCatalogAtRatioOne ==
    downsample_ratio = 1 => C18_BoundedByCatalog

(***************************************************************************)
(* The nearest-point search under downsampling.                            *)
(***************************************************************************)
\* C19: for a path of two points or more and any downsample ratio,
\* get_closest_point_on_path returns a point and a score: the search over
\* the candidates never fails on an empty list of lines.
C19_SearchIsTotal ==
    (\A i \in 1..Len(segment_candidates) :
        Len(Decode(segment_candidates[i].polyline)) >= 2)
       => error # "ValueError"

(***************************************************************************)
(* The stored response of a successful exploration.                        *)
(***************************************************************************)
\* C20: when get_nearby_strava_segments returns, the stored response holds
\* at least one segment: an answer of status 200 with no segment in it is
\* taken as empty and followed by a doubled box, not stored.
C20_DiscoveryStoresSegments ==
    (pc = "get_top_k" /\ selected = <<>>)
       => Len(strava_nearby_segments) >= 1

=============================================================================
